---- MODULE Spec2Model ----
(***************************************************************************)
(* Voice turn state machine of the Krishi Setu front end.                  *)
(*                                                                         *)
(*   useVoiceRecorder (hooks/useVoiceRecorder.ts)  the session phase, the  *)
(*       recorder, the two hook timers and the single-slot audio buffer    *)
(*   VoiceWebSocketClient (utils/textUtils.ts)     sockets, reconnection   *)
(*   VoiceRecorder (utils/voiceRecorder.ts)        capture, stop(), onstop *)
(*   ChatWindow (components/ChatWindow.tsx)        message timeline, dwell *)
(*       timer, audioUrl                                                   *)
(*                                                                         *)
(* React is modelled by what the code relies on: a state update made by a  *)
(* socket, timer or promise callback is queued; a later Render commits it  *)
(* and runs the passive effects (the stateRef sync, the interrupt effect); *)
(* an update made in the synchronous part of a click handler is committed, *)
(* effects included, before the click returns (FlushSync).  `state` is the *)
(* hook's React state with every queued update applied; stateRef is the    *)
(* committed phase, which is also the `state` the closures of the last     *)
(* render hold.                                                            *)
(*                                                                         *)
(* Texts are sequences of tokens: "U" stands for the substring             *)
(* "undefined", "N" for "null", "_" for a space, "Z" for a zero-width      *)
(* character, any other token for an ordinary (NFC-stable) character.      *)
(***************************************************************************)
EXTENDS Bags, FiniteSets, Integers, Naturals, Sequences, TLC

\* ---------------------------------------------------------------- bounds
MaxEvents == 2
MaxSockets == 2
MaxRecorders == 2
MaxMicCalls == 1
MaxClientEvents == 8

\* What a further turn takes from the events of a run: its two frames.
TurnCost == 2

\* The audioUrl changes an owner of the player makes in a run of PlayerSpec.
MaxPlayerEvents == 4

\* The frames of a run of TurnSpec.
MaxTurnEvents == 3

\* The frames of a run of LanguageSpec.
MaxLanguageEvents == 1

\* The text messages and frames of a run of ChatSpec.
MaxChatEvents == 2

\* Events of the behaviours of PlaybackSpec.
MaxPlaybackEvents == 2

\* ------------------------------------------------------ program constants
maxReconnectAttempts == 5
reconnectDelay == 2000
minRecordingSize == 100

\* ------------------------------------------------------------ input sets
ChunkTexts == {<<"a">>}
EndTexts == {<<"b", "U">>}
TranscriptTexts == {<<"q">>}
Urls == {"http://a", "https://b"}

\* The sizes in bytes of a finalized capture.
BlobSizes == {0, 99, 100}

\* The MIME types MediaRecorder.isTypeSupported may accept, in the order
\* getSupportedMimeType tries them.
MimeTypes == <<"audio/webm;codecs=opus", "audio/webm", "audio/ogg;codecs=opus", "audio/mp4">>

Browsers == SUBSET {MimeTypes[i] : i \in 1..Len(MimeTypes)}

\* The languages of the selector the runs choose from.
Languages == {"en", "hi"}

\* window.location.protocol === 'https:'
pageHttps == TRUE

Phases == {"idle", "recording", "processing", "streaming", "waiting_audio", "playing"}

VARIABLES
  \* useVoiceRecorder
  state, stateRef, isSupported, streamRef, warmUp, micWaiters,
  recs, recorderRef, streamingText, pendingAudioUrl,
  responseTimeoutRef, audioUrlTimeoutRef, leakedAudioTimers,
  \* VoiceWebSocketClient
  ws, socks, reconnectAttempts, reconnectTimers, pingInterval,
  intentionalClose, connectionStatus,
  \* ChatWindow
  messages, msgQueue, streamingMsgIdRef, transcriptShownAt, audioDelayTimer,
  audioUrl, effectsPending, nextId, uiLanguage, isLoading, loadingShown,
  \* AudioPlayer
  playerUrl, audios, audioRef, effectAudio, endTimers, signalled,
  \* history
  session, audioSent, sessionLanguage, sentLanguage, events

vars == <<state, stateRef, isSupported, streamRef, warmUp, micWaiters,
          recs, recorderRef, streamingText, pendingAudioUrl,
          responseTimeoutRef, audioUrlTimeoutRef, leakedAudioTimers,
          ws, socks, reconnectAttempts, reconnectTimers, pingInterval,
          intentionalClose, connectionStatus,
          messages, msgQueue, streamingMsgIdRef, transcriptShownAt, audioDelayTimer,
          audioUrl, effectsPending, nextId, uiLanguage, isLoading, loadingShown,
          playerUrl, audios, audioRef, effectAudio, endTimers, signalled,
          session, audioSent, sessionLanguage, sentLanguage, events>>

\* The whole mutable state as one record, so that a handler is a function
\* from the state before it to the state after it.
Pack ==
  [state |-> state, stateRef |-> stateRef,
   isSupported |-> isSupported, streamRef |-> streamRef, warmUp |-> warmUp,
   micWaiters |-> micWaiters, recs |-> recs, recorderRef |-> recorderRef,
   streamingText |-> streamingText, pendingAudioUrl |-> pendingAudioUrl,
   responseTimeoutRef |-> responseTimeoutRef, audioUrlTimeoutRef |-> audioUrlTimeoutRef,
   leakedAudioTimers |-> leakedAudioTimers,
   ws |-> ws, socks |-> socks, reconnectAttempts |-> reconnectAttempts,
   reconnectTimers |-> reconnectTimers, pingInterval |-> pingInterval,
   intentionalClose |-> intentionalClose, connectionStatus |-> connectionStatus,
   messages |-> messages, msgQueue |-> msgQueue, streamingMsgIdRef |-> streamingMsgIdRef,
   transcriptShownAt |-> transcriptShownAt, audioDelayTimer |-> audioDelayTimer,
   audioUrl |-> audioUrl, effectsPending |-> effectsPending, nextId |-> nextId,
   playerUrl |-> playerUrl, audios |-> audios, audioRef |-> audioRef,
   effectAudio |-> effectAudio, endTimers |-> endTimers, signalled |-> signalled,
   uiLanguage |-> uiLanguage, isLoading |-> isLoading, loadingShown |-> loadingShown,
   session |-> session, audioSent |-> audioSent,
   sessionLanguage |-> sessionLanguage, sentLanguage |-> sentLanguage,
   events |-> events]

Unpack(after) ==
  \E s \in {after} :
    /\ state' = s.state /\ stateRef' = s.stateRef
    /\ isSupported' = s.isSupported /\ streamRef' = s.streamRef /\ warmUp' = s.warmUp
    /\ micWaiters' = s.micWaiters /\ recs' = s.recs /\ recorderRef' = s.recorderRef
    /\ streamingText' = s.streamingText /\ pendingAudioUrl' = s.pendingAudioUrl
    /\ responseTimeoutRef' = s.responseTimeoutRef /\ audioUrlTimeoutRef' = s.audioUrlTimeoutRef
    /\ leakedAudioTimers' = s.leakedAudioTimers
    /\ ws' = s.ws /\ socks' = s.socks /\ reconnectAttempts' = s.reconnectAttempts
    /\ reconnectTimers' = s.reconnectTimers /\ pingInterval' = s.pingInterval
    /\ intentionalClose' = s.intentionalClose /\ connectionStatus' = s.connectionStatus
    /\ messages' = s.messages /\ msgQueue' = s.msgQueue
    /\ streamingMsgIdRef' = s.streamingMsgIdRef
    /\ transcriptShownAt' = s.transcriptShownAt /\ audioDelayTimer' = s.audioDelayTimer
    /\ audioUrl' = s.audioUrl /\ effectsPending' = s.effectsPending /\ nextId' = s.nextId
    /\ playerUrl' = s.playerUrl /\ audios' = s.audios /\ audioRef' = s.audioRef
    /\ effectAudio' = s.effectAudio /\ endTimers' = s.endTimers
    /\ signalled' = s.signalled
    /\ uiLanguage' = s.uiLanguage
    /\ isLoading' = s.isLoading /\ loadingShown' = s.loadingShown
    /\ session' = s.session /\ audioSent' = s.audioSent
    /\ sessionLanguage' = s.sessionLanguage /\ sentLanguage' = s.sentLanguage
    /\ events' = s.events

\* A timer slot: "armed" (a timeout is pending) or "null" (the ref is null,
\* or holds the id of a timeout that has run, which clearTimeout ignores).
\* tag is the session in which the timeout was armed.
NoTimer == [st |-> "null", tag |-> 0, url |-> "none"]
ArmedTimer(t, u) == [st |-> "armed", tag |-> t, url |-> u]

\* ------------------------------------------------------------ sanitizeText
RECURSIVE StripTrailing(_, _)
StripTrailing(t, tok) ==
  IF Len(t) > 0 /\ t[Len(t)] = tok THEN StripTrailing(SubSeq(t, 1, Len(t) - 1), tok) ELSE t

RECURSIVE StripLeading(_, _)
StripLeading(t, tok) ==
  IF Len(t) > 0 /\ t[1] = tok THEN StripLeading(SubSeq(t, 2, Len(t)), tok) ELSE t

RECURSIVE CollapseSpaces(_)
CollapseSpaces(t) ==
  IF Len(t) < 2 THEN t
  ELSE IF t[1] = "_" /\ t[2] = "_" THEN CollapseSpaces(SubSeq(t, 2, Len(t)))
  ELSE <<t[1]>> \o CollapseSpaces(SubSeq(t, 2, Len(t)))

RemoveZeroWidth(t) == SelectSeq(t, LAMBDA c : c # "Z")

Trim(t) == StripLeading(StripTrailing(t, "_"), "_")

sanitizeText(t) ==
  LET r1 == StripTrailing(t, "U")
      r2 == StripLeading(r1, "U")
      r3 == StripTrailing(r2, "N")
      r4 == CollapseSpaces(r3)
      r5 == RemoveZeroWidth(r4)
  IN  Trim(r5)

\* ------------------------------------------------- ChatWindow: the timeline
\* raw and born are history: the stream_end content a final message was
\* written from, and the kind of updater that added the message.
Msg(i, t, who, st, raw, born) ==
  [id |-> i, text |-> t, sender |-> who, status |-> st, raw |-> raw, born |-> born]

\* A queued setMessages updater.  "append" adds a ready message, "chunk" is
\* the updater of handleVoiceStreamChunk (it reads streamingMsgIdRef when it
\* runs), "final" the updater of handleVoiceResponse (sid was read when the
\* handler ran).
Updater(k, t, who, sid, raw) ==
  [kind |-> k, text |-> t, sender |-> who, sid |-> sid, raw |-> raw]

IndexOfId(msgs, i) ==
  IF i # 0 /\ \E k \in 1..Len(msgs) : msgs[k].id = i
  THEN CHOOSE k \in 1..Len(msgs) : msgs[k].id = i /\ \A j \in 1..(k - 1) : msgs[j].id # i
  ELSE 0

\* The text of the welcome message in a language.
welcomeMessages(lang) == <<"welcome", lang>>

\* One updater applied to r = [messages, ref, nid]: ref is
\* streamingMsgIdRef.current, nid the next value of Date.now().
ApplyUpdater(u, r) ==
  CASE u.kind = "append" ->
         [r EXCEPT !.messages = Append(@, Msg(0, u.text, u.sender, "none", <<>>, "append"))]
    [] u.kind = "chunk" ->
         LET idx == IndexOfId(r.messages, r.ref)
         IN  IF idx > 0
             THEN [r EXCEPT !.messages[idx].text = u.text]
             ELSE [messages |-> Append(r.messages, Msg(r.nid, u.text, "agent", "streaming", <<>>, "chunk")),
                   ref |-> r.nid, nid |-> r.nid + 1]
    [] u.kind = "final" ->
         LET idx == IndexOfId(r.messages, u.sid)
         IN  IF idx > 0
             THEN [r EXCEPT !.messages[idx].text = u.text,
                            !.messages[idx].status = "final",
                            !.messages[idx].raw = u.raw]
             ELSE [r EXCEPT !.messages = Append(@, Msg(r.nid, u.text, "agent", "final", u.raw, "final")),
                            !.nid = @ + 1]
    [] u.kind = "answer" ->
         [r EXCEPT !.messages = Append(@, Msg(0, u.text, "agent", "final", u.raw, "answer"))]
    [] u.kind = "welcome" ->
         [r EXCEPT !.messages =
             <<Msg(0, u.text, "agent", "none", <<>>, "append")>>
               \o SelectSeq(@, LAMBDA m : \A lang \in Languages : m.text # welcomeMessages(lang))]

RECURSIVE ApplyQueue(_, _)
ApplyQueue(q, r) ==
  IF q = <<>> THEN r ELSE ApplyQueue(Tail(q), ApplyUpdater(Head(q), r))

\* The component has no update pending: React may then run an updater
\* function at the setMessages call itself instead of at the next render.
FiberClean(s) ==
  /\ s.msgQueue = <<>> /\ s.state = s.stateRef /\ ~s.effectsPending
  /\ s.isLoading = s.loadingShown

setMessages(s, u, eager) ==
  IF eager /\ FiberClean(s)
  THEN LET r == ApplyUpdater(u, [messages |-> s.messages, ref |-> s.streamingMsgIdRef,
                                  nid |-> s.nextId])
       IN  [s EXCEPT !.messages = r.messages, !.streamingMsgIdRef = r.ref, !.nextId = r.nid]
  ELSE [s EXCEPT !.msgQueue = Append(@, u)]

\* setState of the hook's phase.
setState(s, v) == [s EXCEPT !.state = v]

clearAudioDelayTimer(s) ==
  IF s.audioDelayTimer.st # "null" THEN [s EXCEPT !.audioDelayTimer = NoTimer] ELSE s

setAudioUrl(s, u) ==
  [s EXCEPT !.audioUrl = u, !.effectsPending = (@ \/ s.audioUrl # u)]

\* delay = max(1000 - elapsed, 0): zero only when a transcript was shown at
\* least the dwell time ago; with no transcript shownAt is now.
scheduleAudioPlayback(s, u) ==
  LET s1 == clearAudioDelayTimer(s)
  IN  IF s1.transcriptShownAt = "old"
      THEN setAudioUrl(s1, u)
      ELSE [s1 EXCEPT !.audioDelayTimer = ArmedTimer(s1.session, u)]

SafeUrl(u, https) ==
  IF https /\ u = "http://a" THEN "https://a" ELSE u

handleVoiceTranscript(s, text, eager) ==
  LET s1 == [s EXCEPT !.transcriptShownAt = "recent"]
  IN  setMessages(s1, Updater("append", sanitizeText(text), "user", 0, <<>>), eager)

handleVoiceStreamChunk(s, accumulatedText, eager) ==
  LET clean == sanitizeText(accumulatedText)
  IN  IF clean = <<>> THEN s
      ELSE setMessages(s, Updater("chunk", clean, "agent", 0, <<>>), eager)

handleVoiceResponse_Concat(s, text, eager) ==
  LET idx == IndexOfId(s.messages, s.streamingMsgIdRef)
      shown == IF idx > 0 THEN s.messages[idx].text ELSE <<>>
      s1 == [s EXCEPT !.streamingMsgIdRef = 0]
  IN  setMessages(s1, Updater("final", shown \o sanitizeText(text), "agent",
                              s.streamingMsgIdRef, text), eager)

handleVoiceResponse(s, text, eager) ==
  LET clean == sanitizeText(text)
      currentStreamId == s.streamingMsgIdRef
      s1 == [s EXCEPT !.streamingMsgIdRef = 0]
  IN  setMessages(s1, Updater("final", clean, "agent", currentStreamId, text), eager)

handleVoiceAudioUrl(s, u) == scheduleAudioPlayback(s, SafeUrl(u, pageHttps))

\* The error strings that contain 'permission' or 'denied'.
PermissionErrors == {"Recording failed: Permission denied",
                     "Microphone access failed: Permission denied"}

handleVoiceError(s, err, eager) ==
  LET s1 == [s EXCEPT !.streamingMsgIdRef = 0, !.transcriptShownAt = "null"]
      displayText == IF err \in PermissionErrors THEN <<"permission">> ELSE <<"error", err>>
  IN  setMessages(s1, Updater("append", displayText, "agent", 0, <<>>), eager)

\* -------------------------------------------- useVoiceRecorder: the timers
clearResponseTimeout(s) ==
  IF s.responseTimeoutRef.st # "null" THEN [s EXCEPT !.responseTimeoutRef = NoTimer] ELSE s

clearAudioUrlTimeout(s) ==
  IF s.audioUrlTimeoutRef.st # "null" THEN [s EXCEPT !.audioUrlTimeoutRef = NoTimer] ELSE s

startResponseTimeout(s) ==
  [clearResponseTimeout(s) EXCEPT !.responseTimeoutRef = ArmedTimer(s.session, "none")]

\* ------------------------------- useVoiceRecorder: the channel callbacks
onTranscript(s, text, eager) == handleVoiceTranscript(s, text, eager)

onStreamChunk_AnyPhase(s, chunk, eager) ==
  LET s1 == [s EXCEPT !.streamingText = @ \o chunk]
  IN  setState(handleVoiceStreamChunk(s1, s1.streamingText, eager), "streaming")

onStreamChunk(s, chunk, eager) ==
  LET s1 == [s EXCEPT !.streamingText = @ \o chunk]
      s2 == handleVoiceStreamChunk(s1, s1.streamingText, eager)
  IN  IF s2.state = "processing" THEN setState(s2, "streaming") ELSE s2

\* audioUrlTimeoutRef is assigned without clearing the timeout it held.
onStreamEnd(s, fullText, eager) ==
  LET s1 == clearResponseTimeout(s)
      s2 == [s1 EXCEPT !.streamingText = <<>>]
      s3 == handleVoiceResponse(s2, fullText, eager)
      s4 == setState(s3, "waiting_audio")
  IN  IF s4.pendingAudioUrl # "none"
      THEN LET u == s4.pendingAudioUrl
               s5 == [s4 EXCEPT !.pendingAudioUrl = "none"]
           IN  handleVoiceAudioUrl(setState(s5, "playing"), u)
      ELSE [s4 EXCEPT !.audioUrlTimeoutRef = ArmedTimer(s4.session, "none"),
                      !.leakedAudioTimers =
                          IF s4.audioUrlTimeoutRef.st = "armed"
                          THEN @ (+) SetToBag({s4.audioUrlTimeoutRef.tag})
                          ELSE @]

onAudioUrl_NoBuffer(s, u) ==
  handleVoiceAudioUrl(setState(clearAudioUrlTimeout(clearResponseTimeout(s)), "playing"), u)

onAudioUrl(s, u) ==
  LET s1 == clearAudioUrlTimeout(clearResponseTimeout(s))
      curState == s1.stateRef
  IN  IF curState = "waiting_audio"
      THEN handleVoiceAudioUrl(setState(s1, "playing"), u)
      ELSE IF curState = "streaming" \/ curState = "processing"
      THEN [s1 EXCEPT !.pendingAudioUrl = u]
      ELSE handleVoiceAudioUrl(setState(s1, "playing"), u)

onError(s, errorMsg, eager) ==
  LET s1 == clearAudioUrlTimeout(clearResponseTimeout(s))
      s2 == [s1 EXCEPT !.pendingAudioUrl = "none"]
  IN  handleVoiceError(setState(s2, "idle"), errorMsg, eager)

markPlaybackDone(s) ==
  LET s1 == [s EXCEPT !.pendingAudioUrl = "none"]
  IN  IF s1.state = "playing" THEN setState(s1, "idle") ELSE s1

\* ------------------------------------- VoiceWebSocketClient: incoming frames
\* event.data of a message event: json says whether JSON.parse accepts it;
\* a field that is absent or empty is <<>>, "none" or "".
Frame(type, content, url, message) ==
  [json |-> TRUE, type |-> type, content |-> content, url |-> url, message |-> message]

NotJson == [json |-> FALSE, type |-> "", content |-> <<>>, url |-> "none", message |-> ""]

handleMessage_Unguarded(s, message, eager) ==
  CASE message.type = "transcript" -> onTranscript(s, message.content, eager)
    [] message.type = "stream_chunk" -> onStreamChunk(s, message.content, eager)
    [] message.type = "stream_end" -> onStreamEnd(s, message.content, eager)
    [] message.type = "audio_url" -> onAudioUrl(s, message.url)
    [] message.type = "error" -> onError(s, message.message, eager)
    [] OTHER -> s

handleMessage(s, message, eager) ==
  CASE message.type = "transcript" ->
         IF message.content # <<>> THEN onTranscript(s, message.content, eager) ELSE s
    [] message.type = "stream_chunk" ->
         IF message.content # <<>> THEN onStreamChunk(s, message.content, eager) ELSE s
    [] message.type = "stream_end" ->
         IF message.content # <<>> THEN onStreamEnd(s, message.content, eager) ELSE s
    [] message.type = "audio_url" ->
         IF message.url # "none" THEN onAudioUrl(s, message.url) ELSE s
    [] message.type = "error" ->
         IF message.message # "" THEN onError(s, message.message, eager) ELSE s
    [] OTHER -> s

\* ws.onmessage: what JSON.parse throws is caught and dropped.
onmessage(s, data, eager) ==
  IF ~data.json THEN s ELSE handleMessage(s, data, eager)

\* -------------------------------------------------------------- AudioPlayer
\* ChatWindow mounts AudioPlayer while its audioUrl is set: playerUrl is the
\* audioUrl of the last committed render, "none" while the player is not
\* mounted.  audios holds the Audio elements that have not been released,
\* each with an id; audioRef is the id of the element audioRef.current
\* refers to and effectAudio the id of the element the last run of the main
\* effect created (the `audio` of its cleanup), 0 for none.  endTimers holds
\* the ids of the elements whose handleEnded timeout is pending, and
\* signalled those of them whose playback handleStop has already reported
\* to onPlayEnd.
releaseAudio_Leak(s, id) == s

\* pause(); src = '': the element raises no further event.
releaseAudio(s, id) ==
  [s EXCEPT !.audios = SelectSeq(@, LAMBDA a : a.id # id)]

cleanupAudio(s) ==
  IF s.audioRef # 0 THEN [releaseAudio(s, s.audioRef) EXCEPT !.audioRef = 0] ELSE s

\* The cleanup the main effect returned.
mainEffectCleanup(s) ==
  [releaseAudio(s, s.effectAudio) EXCEPT !.audioRef = 0, !.effectAudio = 0]

\* An id no element in use has.
NewAudioId(s) ==
  CHOOSE id \in 1..(Len(s.audios) + Cardinality(s.endTimers) + 1) :
    /\ id \notin s.endTimers
    /\ \A k \in 1..Len(s.audios) : s.audios[k].id # id
    /\ \A j \in 1..(id - 1) :
          j \in s.endTimers \/ \E k \in 1..Len(s.audios) : s.audios[k].id = j

\* The main effect of a run for a url: new Audio(), autoplay.
mainEffect(s) ==
  LET s1 == cleanupAudio(s)
      id == NewAudioId(s1)
  IN  [s1 EXCEPT !.audioRef = id, !.effectAudio = id,
                 !.audios = Append(@, [id |-> id, st |-> "playing"])]

\* What a committed render does to the player: nothing when audioUrl is as
\* it was; otherwise the cleanup of the previous run, then the unmount
\* cleanup (audioUrl null) or the next run of the main effect.
playerEffects(s) ==
  IF s.audioUrl = s.playerUrl THEN s
  ELSE LET s1 == IF s.playerUrl # "none" THEN mainEffectCleanup(s) ELSE s
           s2 == [s1 EXCEPT !.playerUrl = s.audioUrl]
       IN  IF s.audioUrl = "none" THEN cleanupAudio(s2) ELSE mainEffect(s2)

\* ------------------------------------------------ React: render and effects
\* A render is committed: the queued updaters run, then the passive effects:
\* those of AudioPlayer, the hook's stateRef sync and ChatWindow's interrupt
\* effect, and the effects of the render the interrupt effect asks for.
Commit(s) ==
  LET r == ApplyQueue(s.msgQueue, [messages |-> s.messages, ref |-> s.streamingMsgIdRef,
                                   nid |-> s.nextId])
      s0 == [s EXCEPT !.messages = r.messages, !.streamingMsgIdRef = r.ref,
                      !.nextId = r.nid, !.msgQueue = <<>>]
      s1 == [playerEffects(s0) EXCEPT !.stateRef = s.state]
      s2 == IF s1.stateRef = "recording"
            THEN playerEffects([clearAudioDelayTimer(s1) EXCEPT !.audioUrl = "none"])
            ELSE s1
  IN  [s2 EXCEPT !.effectsPending = FALSE, !.loadingShown = s.isLoading]

\* The render that ends a click in which the handler updated the phase.
FlushSync(s) == Commit(s)

\* ----------------------------------------------------- VoiceWebSocketClient
\* socks holds the sockets that can still raise events (CONNECTING, OPEN or
\* CLOSING); ws is the index of this.ws in it, 0 when this.ws is null or
\* closed.  connectionStatus is the last status given to onConnectionStatus.
Remove(q, k) == SubSeq(q, 1, k - 1) \o SubSeq(q, k + 1, Len(q))

isConnected(s) == s.ws # 0 /\ s.socks[s.ws].rs = "open"

\* connect(): a new WebSocket replaces this.ws; the socket it replaces keeps
\* its handlers.  waiter: the returned promise is awaited by startRecording.
connect(s, waiter) ==
  [s EXCEPT !.intentionalClose = FALSE,
            !.connectionStatus = "connecting",
            !.socks = Append(@, [rs |-> "connecting", waiter |-> waiter]),
            !.ws = Len(s.socks) + 1]

onopen(s, k) ==
  [s EXCEPT !.socks[k] = [rs |-> "open", waiter |-> FALSE],
            !.reconnectAttempts = 0, !.pingInterval = TRUE,
            !.connectionStatus = "connected"]

shouldReconnect_Unbounded(s) == ~s.intentionalClose

shouldReconnect(s) ==
  ~s.intentionalClose /\ s.reconnectAttempts < maxReconnectAttempts

\* ws.onclose of socket k.
onclose(s, k) ==
  LET s1 == [s EXCEPT !.socks = Remove(@, k),
                      !.ws = IF @ = k THEN 0 ELSE IF @ > k THEN @ - 1 ELSE @,
                      !.pingInterval = FALSE]
  IN  IF shouldReconnect(s1)
      THEN [s1 EXCEPT !.reconnectAttempts = @ + 1,
                      !.connectionStatus = "reconnecting",
                      !.reconnectTimers = @ + 1]
      ELSE IF ~s1.intentionalClose
      THEN [s1 EXCEPT !.connectionStatus = "offline"]
      ELSE s1

\* The delay onclose gives to setTimeout after it has counted the attempt.
reconnectTimeout(attempt) == reconnectDelay

disconnect(s) ==
  LET s1 == [s EXCEPT !.intentionalClose = TRUE, !.pingInterval = FALSE]
  IN  IF s1.ws # 0
      THEN [s1 EXCEPT !.socks[s1.ws].rs = "closing", !.ws = 0]
      ELSE s1

\* --------------------------------------------------- useVoiceRecorder: start
NewRecorder == [isRecording |-> FALSE, mr |-> "none", waiter |-> FALSE]

startFailed(s, msg, eager) ==
  setState(handleVoiceError(s, msg, eager), "idle")

\* startRecording from `new VoiceRecorder` on: the part after the awaits.
startRecordingTail(s, eager) ==
  IF s.streamRef = "none"
  THEN startFailed(s, "Recording failed: no stream", eager)
  ELSE LET s1 == [s EXCEPT !.recs = Append(@, NewRecorder),
                           !.recorderRef = Len(s.recs) + 1,
                           !.events = IF s.recs = <<>> THEN @ ELSE @ - TurnCost]
       IN  IF s1.streamRef # "live"
           THEN startFailed(s1, "Recording failed: No live audio tracks in stream", eager)
           ELSE LET s2 == [s1 EXCEPT !.recs[s1.recorderRef] =
                                        [isRecording |-> TRUE, mr |-> "recording",
                                         waiter |-> FALSE]]
                    s3 == setState(s2, "recording")
                IN  [s3 EXCEPT !.streamingText = <<>>, !.pendingAudioUrl = "none",
                               !.session = @ + 1, !.audioSent = FALSE,
                               !.sessionLanguage = s.uiLanguage,
                               !.sentLanguage = "none"]

\* startRecording from the WebSocket check on, reached after an await.
startRecordingConnect(s, eager) ==
  IF isConnected(s) THEN startRecordingTail(s, eager) ELSE connect(s, TRUE)

needsStream(s) == s.streamRef = "none" \/ s.streamRef = "ended"

startRejected_Never(s) == FALSE

\* `if (state !== 'idle') return`: state is the phase of the render whose
\* closure the call runs in.
startRejected(s) == s.stateRef # "idle"

startRecording_Interrupting(s, eager) ==
  IF ~s.isSupported
  THEN handleVoiceError([s EXCEPT !.events = @ - 1],
                        "Voice recording is not supported in this browser", eager)
  ELSE IF s.stateRef \notin {"idle", "playing"} THEN s
  ELSE IF needsStream(s) THEN [s EXCEPT !.micWaiters = @ + 1]
  ELSE IF isConnected(s) THEN FlushSync(startRecordingTail(s, eager))
  ELSE connect(s, TRUE)

\* startRecording up to its first await, or to its end when it awaits nothing.
startRecording(s, eager) ==
  IF ~s.isSupported
  THEN handleVoiceError([s EXCEPT !.events = @ - 1],
                        "Voice recording is not supported in this browser", eager)
  ELSE IF startRejected(s) THEN s
  ELSE IF needsStream(s) THEN [s EXCEPT !.micWaiters = @ + 1]
  ELSE IF isConnected(s) THEN FlushSync(startRecordingTail(s, eager))
  ELSE connect(s, TRUE)

\* ------------------------------------------------------ VoiceRecorder: stop
\* supported: the types for which MediaRecorder.isTypeSupported is true.
getSupportedMimeType(supported) ==
  IF \E i \in 1..Len(MimeTypes) : MimeTypes[i] \in supported
  THEN MimeTypes[CHOOSE i \in 1..Len(MimeTypes) :
                   /\ MimeTypes[i] \in supported
                   /\ \A j \in 1..(i - 1) : MimeTypes[j] \notin supported]
  ELSE "audio/webm"

tooSmall_Never(size) == FALSE

tooSmall(size) == size < minRecordingSize

FileReaderFailed == "Stop recording failed: FileReader failed"

\* What onstop settles the stop() promise with: mp3ok says whether
\* convertToMp3 resolved, rawok whether blobToBase64 did.
stopResult(mimeType, size, mp3ok, rawok) ==
  IF tooSmall(size)
  THEN [rejected |-> TRUE, error |-> "Stop recording failed: Recording too small",
        format |-> "none"]
  ELSE IF mp3ok
  THEN [rejected |-> FALSE, error |-> "", format |-> "mp3"]
  ELSE IF rawok
  THEN [rejected |-> FALSE, error |-> "", format |-> "webm"]
  ELSE [rejected |-> TRUE, error |-> FileReaderFailed, format |-> "none"]

\* What stop() can settle with when the capture has one of the sizes.
StopResults(sizes) ==
  {stopResult(getSupportedMimeType(supported), size, mp3ok, rawok) :
     supported \in Browsers, size \in sizes, mp3ok \in BOOLEAN, rawok \in BOOLEAN}

\* ---------------------------------------------------- useVoiceRecorder: stop
stopFailed(s, msg, eager) ==
  setState(handleVoiceError(s, msg, eager), "idle")

stopRecording(s, eager) ==
  IF s.stateRef # "recording" \/ s.recorderRef = 0 THEN s
  ELSE LET s1 == setState(s, "processing")
           rec == s1.recs[s1.recorderRef]
       IN  IF ~rec.isRecording \/ rec.mr = "none"
           THEN FlushSync(stopFailed(s1, "Stop recording failed: Not recording", eager))
           ELSE FlushSync([s1 EXCEPT !.recs[s1.recorderRef] =
                                        [isRecording |-> FALSE, mr |-> "stopping",
                                         waiter |-> TRUE]])

sendVoiceQuery_Unchecked(s, eager) ==
  [s EXCEPT !.audioSent = TRUE, !.sentLanguage = s.uiLanguage]

sendVoiceQuery(s, eager) ==
  IF ~isConnected(s)
  THEN onError(s, "WebSocket not connected", eager)
  ELSE [s EXCEPT !.audioSent = TRUE, !.sentLanguage = s.uiLanguage]

stopRecordingTail_SendAnyway(s, eager) ==
  startResponseTimeout([s EXCEPT !.audioSent = TRUE, !.sentLanguage = s.uiLanguage])

\* stopRecording after `await recorderRef.current.stop()` resolved.
stopRecordingTail(s, eager) ==
  IF ~isConnected(s)
  THEN setState(handleVoiceError(s, "WebSocket disconnected. Please try again.", eager), "idle")
  ELSE startResponseTimeout(sendVoiceQuery(s, eager))

\* ------------------------------------------------- ChatWindow: the button
\* VoiceButton: disabled while the phase is busy.
isBusy(s) == s.stateRef \in {"processing", "streaming", "waiting_audio", "playing"}

handleVoiceButtonClick(s, eager) ==
  IF s.stateRef = "idle"
  THEN startRecording(clearAudioDelayTimer([s EXCEPT !.streamingMsgIdRef = 0,
                                                     !.transcriptShownAt = "null"]),
                      eager)
  ELSE IF s.stateRef = "recording" THEN stopRecording(s, eager)
  ELSE s

\* ------------------------------------------------------------------ actions

\* events is what may still happen to the program in the run: the frames
\* still to be received, the faults still to happen (a device, recorder or
\* socket failure, a click in a browser without voice support) and the calls
\* still to be made on the client's interface.
EventLeft == events > 0

Faulted == [Pack EXCEPT !.events = @ - 1]

Received == [Pack EXCEPT !.events = @ - 1]

EagerChoices == IF FiberClean(Pack) THEN BOOLEAN ELSE {FALSE}

\* The recorders and sockets a call may still create; a recorder after the
\* first counts as the events of a turn.
RecorderLeft == Len(recs) < MaxRecorders /\ (recs # <<>> => events >= TurnCost)
SocketLeft == Len(socks) < MaxSockets

\* -- user
\* A click on the voice button.
VoiceButtonClick ==
  /\ ~isBusy(Pack)
  /\ ~loadingShown
  /\ ~isSupported => EventLeft
  /\ (isSupported /\ stateRef = "idle" /\ needsStream(Pack)) => micWaiters < MaxMicCalls
  /\ (isSupported /\ stateRef = "idle" /\ ~needsStream(Pack)) =>
        IF isConnected(Pack) THEN RecorderLeft ELSE SocketLeft
  /\ \E after \in {handleVoiceButtonClick(Pack, eager) : eager \in EagerChoices} :
       Unpack(after)

\* The hook's startRecording called when the button would not call it: in a
\* phase other than idle.
StartRecording ==
  /\ isSupported
  /\ stateRef # "idle"
  /\ \E after \in {startRecording(Pack, eager) : eager \in EagerChoices} : Unpack(after)

\* The hook's stopRecording called when the button would not call it: in a
\* phase other than recording.
StopRecording ==
  /\ stateRef # "recording"
  /\ \E after \in {stopRecording(Pack, eager) : eager \in EagerChoices} : Unpack(after)

\* -- microphone
WarmUpResolves ==
  /\ warmUp = "pending"
  /\ Unpack([Pack EXCEPT !.warmUp = "done", !.streamRef = "live"])

WarmUpFails ==
  /\ warmUp = "pending"
  /\ EventLeft
  /\ \E eager \in EagerChoices :
       Unpack(handleVoiceError([Faulted EXCEPT !.warmUp = "done"],
                           "Microphone access failed: Permission denied", eager))

\* getUserMedia awaited by startRecording resolves; the call goes on.
MicResolves ==
  /\ micWaiters > 0
  /\ IF isConnected(Pack) THEN RecorderLeft ELSE SocketLeft
  /\ \E eager \in EagerChoices :
       Unpack(startRecordingConnect([Pack EXCEPT !.micWaiters = @ - 1, !.streamRef = "live"],
                                eager))

MicRejects ==
  /\ micWaiters > 0
  /\ EventLeft
  /\ \E eager \in EagerChoices :
       Unpack(startFailed([Faulted EXCEPT !.micWaiters = @ - 1],
                      "Recording failed: Permission denied", eager))

\* The device is unplugged or revoked: the tracks end, and a MediaRecorder
\* capturing them stops by itself (its onstop runs with no stop() pending).
TrackEnded ==
  /\ streamRef = "live"
  /\ EventLeft
  /\ Unpack([Faulted EXCEPT !.streamRef = "ended",
                     !.recs = [i \in 1..Len(recs) |->
                                 IF recs[i].mr = "recording"
                                 THEN [recs[i] EXCEPT !.mr = "none"] ELSE recs[i]]])

\* -- recorder
\* MediaRecorder.onstop after stop(): the capture is finalized and encoded,
\* the stop() promise settles and stopRecording goes on.
\* result is what onstop settles the stop() promise with.  A FileReader
\* that fails is a fault of the run.
RecorderOnStopYields(i, result) ==
  /\ recs[i].mr = "stopping"
  /\ result.error = FileReaderFailed => EventLeft
  /\ \E eager \in EagerChoices :
       LET s1 == [(IF result.error = FileReaderFailed THEN Faulted ELSE Pack)
                    EXCEPT !.recs[i] = [@ EXCEPT !.mr = "none", !.waiter = FALSE]]
       IN  Unpack(IF ~recs[i].waiter THEN s1
              ELSE IF result.rejected THEN stopFailed(s1, result.error, eager)
              ELSE stopRecordingTail(s1, eager))

\* The recorder chose its MIME type from what the browser supports when it
\* was constructed; the type is used here only.
RecorderOnStop(i) ==
  /\ recs[i].mr = "stopping"
  /\ \E result \in StopResults(BlobSizes) : RecorderOnStopYields(i, result)

\* MediaRecorder.onerror.
RecorderError(i) ==
  /\ recs[i].mr \in {"recording", "stopping"}
  /\ EventLeft
  /\ \E eager \in EagerChoices :
       LET s1 == [Faulted EXCEPT !.recs[i] = [@ EXCEPT !.mr = "none", !.waiter = FALSE]]
           s2 == setState(handleVoiceError(s1, "MediaRecorder error", eager), "idle")
       IN  Unpack(IF recs[i].waiter
              THEN stopFailed(s2, "Stop recording failed: MediaRecorder error", FALSE)
              ELSE s2)

\* -- sockets
SocketOpen(k) ==
  /\ socks[k].rs = "connecting"
  /\ socks[k].waiter => RecorderLeft
  /\ \E eager \in EagerChoices :
       LET s1 == onopen(Pack, k)
       IN  Unpack(IF socks[k].waiter THEN startRecordingTail(s1, eager) ELSE s1)

SocketError(k) ==
  /\ k \in 1..Len(socks)
  /\ EventLeft
  /\ \E eager \in EagerChoices :
       Unpack(onError(Faulted, "WebSocket connection error", eager))

\* The close event of socket k: the end of a close() of the client, or an
\* unexpected close.
SocketClose(k) ==
  /\ socks[k].rs = "closing" \/ EventLeft
  /\ Unpack(onclose(IF socks[k].rs = "closing" THEN Pack ELSE Faulted, k))

ReconnectTimerFires ==
  /\ reconnectTimers > 0
  /\ SocketLeft
  /\ Unpack(connect([Pack EXCEPT !.reconnectTimers = @ - 1], FALSE))

\* -- the client's own interface, called by its owner; a call counts as an
\* event of the run.
Called == [Pack EXCEPT !.events = @ - 1]

ClientConnect ==
  /\ EventLeft /\ SocketLeft
  /\ Unpack(connect(Called, FALSE))

ClientDisconnect ==
  /\ EventLeft
  /\ Unpack(disconnect(Called))

ClientSendVoiceQuery ==
  /\ EventLeft
  /\ \E eager \in EagerChoices : Unpack(sendVoiceQuery(Called, eager))

\* -- frames from the agent, on any socket that is open
CanReceive == EventLeft /\ \E k \in 1..Len(socks) : socks[k].rs = "open"

FrameTranscript ==
  /\ CanReceive
  /\ \E text \in TranscriptTexts, eager \in EagerChoices :
       Unpack(onmessage(Received, Frame("transcript", text, "none", ""), eager))

FrameStreamChunk ==
  /\ CanReceive
  /\ \E chunk \in ChunkTexts, eager \in EagerChoices :
       Unpack(onmessage(Received, Frame("stream_chunk", chunk, "none", ""), eager))

StreamEndOf(text) ==
  /\ CanReceive
  /\ \E eager \in EagerChoices :
       Unpack(onmessage(Received, Frame("stream_end", text, "none", ""), eager))

FrameStreamEnd == \E text \in EndTexts : StreamEndOf(text)

AudioUrlOf(u) ==
  /\ CanReceive
  /\ Unpack(onmessage(Received, Frame("audio_url", <<>>, u, ""), FALSE))

FrameAudioUrl == \E u \in Urls : AudioUrlOf(u)

FrameError ==
  /\ CanReceive
  /\ \E eager \in EagerChoices :
       Unpack(onmessage(Received, Frame("error", <<>>, "none", "Agent error"), eager))

\* The frames the client drops: text that is not JSON, a type it does not
\* know, and a frame without the field its type requires.
MalformedFrames ==
  {NotJson,
   Frame("bogus", <<"a">>, "http://a", "Agent error"),
   Frame("transcript", <<>>, "none", ""),
   Frame("transcript", <<>>, "http://a", "Agent error"),
   Frame("stream_chunk", <<>>, "none", ""),
   Frame("stream_end", <<>>, "none", ""),
   Frame("stream_end", <<>>, "https://b", ""),
   Frame("audio_url", <<>>, "none", ""),
   Frame("audio_url", <<"a">>, "none", ""),
   Frame("error", <<>>, "none", ""),
   Frame("error", <<"a">>, "none", "")}

FrameMalformed ==
  /\ CanReceive
  /\ \E after \in {onmessage(Received, data, eager) :
                      data \in MalformedFrames, eager \in EagerChoices} : Unpack(after)

\* -- timers
ResponseTimeoutFires ==
  /\ responseTimeoutRef.st = "armed"
  /\ \E eager \in EagerChoices :
       LET s1 == setState([Pack EXCEPT !.responseTimeoutRef = NoTimer], "idle")
       IN  Unpack(handleVoiceError(s1, "Agent did not respond in time. Please try again.", eager))

audioUrlTimeoutCallback_Error(s) ==
  handleVoiceError(setState(s, "idle"), "No audio received in time.", FALSE)

audioUrlTimeoutCallback(s) ==
  IF s.state = "waiting_audio" THEN setState(s, "idle") ELSE s

AudioUrlTimeoutFires ==
  /\ audioUrlTimeoutRef.st = "armed"
  /\ Unpack(audioUrlTimeoutCallback([Pack EXCEPT !.audioUrlTimeoutRef = NoTimer]))

\* A timeout that audioUrlTimeoutRef no longer refers to.
LeakedAudioUrlTimeoutFires ==
  \E t \in BagToSet(leakedAudioTimers) :
    Unpack(audioUrlTimeoutCallback([Pack EXCEPT !.leakedAudioTimers = @ (-) SetToBag({t})]))

AudioDelayTimerFires ==
  /\ audioDelayTimer.st = "armed"
  /\ Unpack(setAudioUrl([Pack EXCEPT !.audioDelayTimer = NoTimer], audioDelayTimer.url))

\* The dwell time since the transcript was shown has passed.
DwellElapses ==
  /\ transcriptShownAt = "recent"
  /\ Unpack([Pack EXCEPT !.transcriptShownAt = "old"])

\* -- playback
handleAudioPlayEnd(s) ==
  markPlaybackDone([setAudioUrl(s, "none") EXCEPT !.transcriptShownAt = "null"])

\* The 'ended' event of an element: handleEnded arms its timeout.
AudioEnded(k) ==
  /\ audios[k].st = "playing"
  /\ Unpack([Pack EXCEPT !.audios[k].st = "ended", !.endTimers = @ \cup {audios[k].id}])

\* The timeout of handleEnded: onPlayEndRef.current().
EndTimerFires(id) ==
  /\ id \in endTimers
  /\ Unpack(handleAudioPlayEnd([Pack EXCEPT !.endTimers = @ \ {id},
                                            !.signalled = @ \ {id}]))

\* handlePlayPause: the Play/Pause button of the mounted player.  An element
\* that is paused or has ended reports paused and is played (again); a
\* playing one is paused.
handlePlayPause(s) ==
  IF s.audioRef = 0 THEN s
  ELSE [s EXCEPT !.audios = [k \in 1..Len(@) |->
                    IF @[k].id # s.audioRef THEN @[k]
                    ELSE [@[k] EXCEPT !.st = IF @ = "playing" THEN "paused" ELSE "playing"]]]

\* if (!showPlayer) return null: the player and its buttons are rendered
\* from the run of the main effect until handleError hides them.
showPlayer(s) ==
  /\ s.playerUrl # "none"
  /\ \A k \in 1..Len(s.audios) : s.audios[k].id = s.audioRef => s.audios[k].st # "error"

\* handleError, the listener of the element's 'error' event: the player is
\* hidden and onErrorRef.current is called, for which ChatWindow passes
\* () => {}.
handleError(s, k) == [s EXCEPT !.audios[k].st = "error"]

AudioError(k) ==
  /\ audios[k].st \in {"playing", "paused"}
  /\ EventLeft
  /\ Unpack(handleError(Faulted, k))

PlayPauseClick ==
  /\ showPlayer(Pack)
  /\ Unpack(handlePlayPause(Pack))

\* -- the text modality
\* InputBar: disabled while a text request is in flight or the phase is not
\* idle, as the last render showed them.
shouldDisableInput(s) == s.loadingShown \/ s.stateRef # "idle"

\* handleSendMessage up to its first await.
handleSendMessage(s, text) ==
  [setMessages(s, Updater("append", text, "user", 0, <<>>), FALSE) EXCEPT !.isLoading = TRUE]

\* handleSendMessage after apiClient.sendMessage resolved, with its finally.
sendMessageResolved(s, response) ==
  [setMessages(s, Updater("answer", sanitizeText(response), "agent", 0, response), FALSE)
     EXCEPT !.isLoading = FALSE]

\* handleSendMessage in its catch, with its finally.
sendMessageFailed(s) ==
  [setMessages(s, Updater("append", <<"sorry">>, "agent", 0, <<>>), FALSE)
     EXCEPT !.isLoading = FALSE]

SendMessage ==
  /\ ~shouldDisableInput(Pack)
  /\ EventLeft
  /\ \E text \in TranscriptTexts : Unpack(FlushSync(handleSendMessage(Called, text)))

SendMessageResolves ==
  /\ isLoading
  /\ \E response \in EndTexts : Unpack(sendMessageResolved(Pack, response))

SendMessageFails ==
  /\ isLoading
  /\ Unpack(sendMessageFailed(Pack))

\* handleLanguageChange of the page: the render of the click refreshes
\* callbacksRef.current and runs the welcome effect, whose update is rendered
\* in turn.
handleLanguageChange(s, language) ==
  LET s1 == Commit([s EXCEPT !.uiLanguage = language])
  IN  Commit(setMessages(s1, Updater("welcome", welcomeMessages(language), "agent", 0, <<>>),
                         FALSE))

ChangeLanguage ==
  \E language \in Languages \ {uiLanguage} : Unpack(handleLanguageChange(Pack, language))

\* handleStop: the Stop button of the mounted player.
StopClick ==
  /\ showPlayer(Pack)
  /\ Unpack(FlushSync(handleAudioPlayEnd(cleanupAudio(
              [Pack EXCEPT !.signalled = @ \cup ({audioRef} \cap endTimers)]))))

\* -- React
Render ==
  /\ ~FiberClean(Pack)
  /\ Unpack(Commit(Pack))

\* --------------------------------------------------------------------- spec
Welcome == Msg(0, welcomeMessages("en"), "agent", "none", <<>>, "append")

Mounted(budget) ==
  /\ state = "idle" /\ stateRef = "idle"
  /\ isSupported \in BOOLEAN
  /\ streamRef = "none"
  /\ warmUp = IF isSupported THEN "pending" ELSE "done"
  /\ micWaiters = 0
  /\ recs = <<>> /\ recorderRef = 0
  /\ streamingText = <<>> /\ pendingAudioUrl = "none"
  /\ responseTimeoutRef = NoTimer /\ audioUrlTimeoutRef = NoTimer
  /\ leakedAudioTimers = EmptyBag
  /\ ws = 0 /\ socks = <<>> /\ reconnectAttempts = 0 /\ reconnectTimers = 0
  /\ pingInterval = FALSE
  /\ intentionalClose = FALSE /\ connectionStatus = "none"
  /\ messages = <<Welcome>> /\ msgQueue = <<>> /\ streamingMsgIdRef = 0
  /\ transcriptShownAt = "null" /\ audioDelayTimer = NoTimer
  /\ audioUrl = "none" /\ effectsPending = FALSE /\ nextId = 1
  /\ playerUrl = "none" /\ audios = <<>> /\ audioRef = 0
  /\ effectAudio = 0 /\ endTimers = {} /\ signalled = {}
  /\ uiLanguage = "en"
  /\ isLoading = FALSE /\ loadingShown = FALSE
  /\ session = 0 /\ audioSent = FALSE
  /\ sessionLanguage = "none" /\ sentLanguage = "none"
  /\ events = budget

Init == Mounted(MaxEvents)

Next ==
  \/ VoiceButtonClick
  \/ StartRecording
  \/ StopRecording
  \/ WarmUpResolves
  \/ WarmUpFails
  \/ MicResolves
  \/ MicRejects
  \/ TrackEnded
  \/ \E i \in 1..Len(recs) : RecorderOnStop(i)
  \/ \E i \in 1..Len(recs) : RecorderError(i)
  \/ \E k \in 1..Len(socks) : SocketOpen(k)
  \/ \E k \in 1..Len(socks) : SocketError(k)
  \/ \E k \in 1..Len(socks) : SocketClose(k)
  \/ ReconnectTimerFires
  \/ FrameTranscript
  \/ FrameStreamChunk
  \/ FrameStreamEnd
  \/ FrameAudioUrl
  \/ FrameError
  \/ FrameMalformed
  \/ ResponseTimeoutFires
  \/ AudioUrlTimeoutFires
  \/ LeakedAudioUrlTimeoutFires
  \/ AudioDelayTimerFires
  \/ DwellElapses
  \/ \E k \in 1..Len(audios) : AudioEnded(k)
  \/ \E id \in endTimers : EndTimerFires(id)
  \/ StopClick
  \/ Render

Spec == Init /\ [][Next]_vars

\* What the browser owes: an armed timeout runs, a scheduled render is
\* committed, a stopped MediaRecorder delivers onstop.  Frames, faults and
\* clicks are owed by nobody.
Fairness ==
  /\ WF_vars(ResponseTimeoutFires)
  /\ WF_vars(AudioUrlTimeoutFires)
  /\ WF_vars(LeakedAudioUrlTimeoutFires)
  /\ WF_vars(AudioDelayTimerFires)
  /\ WF_vars(Render)
  /\ WF_vars(\E i \in 1..Len(recs) : RecorderOnStop(i))

FairSpec == Spec /\ Fairness

\* VoiceWebSocketClient driven through its own interface: connect(),
\* disconnect() and sendVoiceQuery() called in any order.
ClientInit == Mounted(MaxClientEvents)

ClientNext ==
  \/ ClientConnect
  \/ ClientDisconnect
  \/ ClientSendVoiceQuery
  \/ \E k \in 1..Len(socks) : SocketOpen(k)
  \/ \E k \in 1..Len(socks) : SocketError(k)
  \/ \E k \in 1..Len(socks) : SocketClose(k)
  \/ ReconnectTimerFires
  \/ Render

ClientSpec == ClientInit /\ [][ClientNext]_vars

\* The AudioPlayer under an owner that passes it any audioUrl or null at any
\* time, with its Play/Pause and Stop buttons, the 'ended' event of its
\* elements and their timeouts.  (Spec leaves the Play/Pause button out: to
\* the rest of the program a paused element is one whose 'ended' event has
\* not come yet.)
OwnerSetsAudioUrl ==
  /\ EventLeft
  /\ \E u \in Urls \cup {"none"} : Unpack(setAudioUrl(Called, u))

PlayerInit == Mounted(MaxPlayerEvents)

PlayerNext ==
  \/ OwnerSetsAudioUrl
  \/ \E k \in 1..Len(audios) : AudioEnded(k)
  \/ \E id \in endTimers : EndTimerFires(id)
  \/ PlayPauseClick
  \/ StopClick
  \/ Render

PlayerSpec == PlayerInit /\ [][PlayerNext]_vars

\* Turns in which nothing fails and every answer arrives in time.
TurnInit == Mounted(MaxTurnEvents)

TurnNext ==
  \/ VoiceButtonClick
  \/ WarmUpResolves
  \/ MicResolves
  \/ \E i \in 1..Len(recs) : RecorderOnStop(i)
  \/ \E k \in 1..Len(socks) : SocketOpen(k)
  \/ FrameTranscript
  \/ FrameStreamChunk
  \/ FrameStreamEnd
  \/ FrameAudioUrl
  \/ AudioDelayTimerFires
  \/ DwellElapses
  \/ \E k \in 1..Len(audios) : AudioEnded(k)
  \/ \E id \in endTimers : EndTimerFires(id)
  \/ Render

TurnSpec == TurnInit /\ [][TurnNext]_vars

\* Such turns with a user who may change the language at any moment.
LanguageInit == Mounted(MaxLanguageEvents)

LanguageNext ==
  \/ ChangeLanguage
  \/ TurnNext

LanguageSpec == LanguageInit /\ [][LanguageNext]_vars

\* Such turns with playbacks that may fail and a user who may press Stop.
PlaybackInit == Mounted(MaxPlaybackEvents)

PlaybackNext ==
  \/ \E k \in 1..Len(audios) : AudioError(k)
  \/ StopClick
  \/ TurnNext

PlaybackSpec == PlaybackInit /\ [][PlaybackNext]_vars

\* Such turns with a user who also sends text messages.
ChatInit == Mounted(MaxChatEvents)

ChatNext ==
  \/ SendMessage
  \/ SendMessageResolves
  \/ SendMessageFails
  \/ TurnNext

ChatSpec == ChatInit /\ [][ChatNext]_vars

\* ================================================================== claims
Successor(p) ==
  CASE p = "idle" -> "recording"
    [] p = "recording" -> "processing"
    [] p = "processing" -> "streaming"
    [] p = "streaming" -> "waiting_audio"
    [] p = "waiting_audio" -> "playing"
    [] p = "playing" -> "idle"

Rank(p) ==
  CASE p = "idle" -> 0
    [] p = "recording" -> 1
    [] p = "processing" -> 2
    [] p = "streaming" -> 3
    [] p = "waiting_audio" -> 4
    [] p = "playing" -> 5

\* What a rejected startRecording must leave alone.
SessionVars ==
  <<state, recs, recorderRef, streamingText, pendingAudioUrl,
    responseTimeoutRef, audioUrlTimeoutRef, leakedAudioTimers>>

\* The url reached ChatWindow in this step: handleVoiceAudioUrl scheduled it
\* on the dwell timer or handed it to the player.
DeliveredNow(u) ==
  \/ audioDelayTimer' = ArmedTimer(session', SafeUrl(u, pageHttps))
  \/ audioDelayTimer'.st = "null" /\ audioUrl' = SafeUrl(u, pageHttps)

\* Nothing reached ChatWindow's playback path in this step.
NotDelivered == audioDelayTimer' = audioDelayTimer /\ audioUrl' = audioUrl

\* C1: every change of the phase is a step to the immediate successor in
\* idle -> recording -> processing -> streaming -> waiting_audio -> playing
\* -> idle, or a reset to idle; no phase of the sequence is skipped.
C1_StrictSequence ==
  [][state' # state => (state' = Successor(state) \/ state' = "idle")]_vars

\* C2: the phase never moves back to an earlier phase other than idle: a
\* change of phase either goes to idle or goes forward in the sequence.
C2_Monotonic ==
  [][state' # state => (state' = "idle" \/ Rank(state') > Rank(state))]_vars

C5_AudioBufferedBeforeStreamEnd ==
  [][\A u \in Urls :
       (AudioUrlOf(u) /\ state \in {"processing", "streaming"}) =>
          (pendingAudioUrl' = u /\ state' = state /\ NotDelivered)]_vars

\* An audio_url is held back while the answer is still streaming.
C5_Witness ==
  /\ state = "streaming" /\ pendingAudioUrl \in Urls
  /\ audioUrl = "none" /\ audioDelayTimer.st = "null"

\* C6: a stream_end processed while an audio url is buffered delivers that
\* url to the UI in the same step, empties the buffer, ends in playing and
\* arms no audio-wait timer; an audio_url received while the phase is
\* waiting_audio is delivered on arrival and the phase becomes playing.
C6_BufferedOrLateAudio ==
  [][/\ \A text \in EndTexts :
          (StreamEndOf(text) /\ pendingAudioUrl # "none") =>
             /\ DeliveredNow(pendingAudioUrl)
             /\ pendingAudioUrl' = "none"
             /\ state' = "playing"
             /\ audioUrlTimeoutRef' = audioUrlTimeoutRef
             /\ leakedAudioTimers' = leakedAudioTimers
     /\ \A u \in Urls :
          (AudioUrlOf(u) /\ state = "waiting_audio") =>
             (DeliveredNow(u) /\ state' = "playing")]_vars

\* The timeline once the queued updaters have run.
Shown(msgs, queue, ref, nid) ==
  ApplyQueue(queue, [messages |-> msgs, ref |-> ref, nid |-> nid]).messages

ErrorsIn(msgs) == {i \in 1..Len(msgs) : msgs[i].text # <<>> /\ msgs[i].text[1] = "error"}

\* The step appended an error message to the timeline (or queued it).
ErrorReportedNow ==
  LET before == Shown(messages, msgQueue, streamingMsgIdRef, nextId)
      after == Shown(messages', msgQueue', streamingMsgIdRef', nextId')
  IN  /\ Cardinality(ErrorsIn(after)) = Cardinality(ErrorsIn(before)) + 1
      /\ Len(after) \in ErrorsIn(after)

\* C8: a WebSocket onerror, an error frame or the response timeout firing
\* makes the phase idle, reports an error to the UI, and leaves the response
\* timer and the audio-wait timer cleared and the buffered audio url empty.
C8_ErrorResetsSession ==
  [][(FrameError \/ (\E k \in 1..Len(socks) : SocketError(k)) \/ ResponseTimeoutFires) =>
        /\ state' = "idle"
        /\ ErrorReportedNow
        /\ responseTimeoutRef'.st = "null"
        /\ audioUrlTimeoutRef'.st = "null"
        /\ pendingAudioUrl' = "none"]_vars

\* C9: the three timer slots are clear whenever the phase returns to idle,
\* and a timeout that runs was armed in the current session, which has not
\* been reset.
C9_TimersStayInSession ==
  [][/\ (state # "idle" /\ state' = "idle") =>
          /\ responseTimeoutRef'.st = "null"
          /\ audioUrlTimeoutRef'.st = "null"
          /\ audioDelayTimer'.st = "null"
     /\ ResponseTimeoutFires => (responseTimeoutRef.tag = session /\ state # "idle")
     /\ AudioUrlTimeoutFires => (audioUrlTimeoutRef.tag = session /\ state # "idle")
     /\ AudioDelayTimerFires => (audioDelayTimer.tag = session /\ state # "idle")]_vars

\* The audio was sent and the phase is still processing or streaming.
Unanswered == audioSent /\ state \in {"processing", "streaming"}

\* C10: once stopRecording has sent the audio, the phase eventually leaves
\* processing/streaming, whichever frames arrive or fail to arrive.
C10_AnswerOrTimeout == Unanswered ~> ~Unanswered

\* Something the browser owes will end the wait: an audio-wait timeout, the
\* response timeout, or the stop() that stopRecording still awaits (it ends
\* in idle or arms the response timeout).
ExitPending ==
  \/ audioUrlTimeoutRef.st = "armed"
  \/ leakedAudioTimers # EmptyBag
  \/ responseTimeoutRef.st = "armed"
  \/ \E i \in 1..Len(recs) : recs[i].mr = "stopping" /\ recs[i].waiter

\* C11: the phase cannot stay waiting_audio for ever: whenever it is
\* waiting_audio the audio has been delivered in the same step (the phase is
\* playing by then) or a timeout that will make the phase idle is pending,
\* however the audio_url frame interleaves with the stream_end handling and
\* with the renders that copy the phase into stateRef.  Without a pending
\* timeout only a further frame, which nobody owes, can end the wait.
C11_WaitingAudioEnds == state = "waiting_audio" => ExitPending

\* An audio-wait timeout runs: the one audioUrlTimeoutRef holds, or one it
\* held before it was overwritten.
AudioWaitTimeoutRuns == AudioUrlTimeoutFires \/ LeakedAudioUrlTimeoutFires

\* C12: when an audio-wait timeout runs while the phase is waiting_audio the
\* phase becomes idle, nothing is handed to the playback path, no error is
\* reported and the timeline, final text included, is as it was.
C12_AudioTimeoutOnlyCancelsAudio ==
  [][(AudioWaitTimeoutRuns /\ state = "waiting_audio") =>
        /\ state' = "idle"
        /\ NotDelivered
        /\ Shown(messages', msgQueue', streamingMsgIdRef', nextId') =
             Shown(messages, msgQueue, streamingMsgIdRef, nextId)]_vars

\* The audio-wait timeout has just ended a turn whose text was delivered: the
\* phase is idle, the last render still showed waiting_audio, the final text
\* is in the timeline and no error is.
C12_Witness ==
  /\ state = "idle" /\ stateRef = "waiting_audio"
  /\ audioUrlTimeoutRef.st = "null" /\ leakedAudioTimers = EmptyBag
  /\ audioUrl = "none" /\ audioDelayTimer.st = "null"
  /\ LET shown == Shown(messages, msgQueue, streamingMsgIdRef, nextId)
     IN  /\ \E i \in 1..Len(shown) : shown[i].status = "final"
         /\ \A i \in 1..Len(shown) : shown[i].text[1] \notin {"error", "permission"}

\* The recorders whose MediaRecorder is capturing.
Capturing == {i \in 1..Len(recs) : recs[i].mr = "recording"}

\* C13: at most one VoiceRecorder is capturing at any time, whatever the
\* interleaving of the startRecording calls with the awaits and the renders.
C13_OneSession == Cardinality(Capturing) <= 1

\* The step reported the error msg to the UI.
ReportedNow(msg) ==
  LET after == Shown(messages', msgQueue', streamingMsgIdRef', nextId')
  IN  ErrorReportedNow /\ after[Len(after)].text = <<"error", msg>>

\* The awaited stop() of recorder i has settled in this step.
StopSettled(i) ==
  /\ recs[i].mr = "stopping" /\ recs[i].waiter
  /\ Len(recs') >= i /\ recs'[i].mr = "none"

\* stop() of the recorder settles and stopRecording goes on.
StopSettles == \E i \in 1..Len(recs) : StopSettled(i) /\ RecorderOnStop(i)

\* C14: a close of a socket while the phase is recording or processing
\* leaves the phase and the recorders as they are; and when stop() settles
\* after the sockets of the session have closed (none is left, the session
\* began with one open), the recording is not given up as disconnected: it
\* is kept to be sent once a socket is open again.
C14_CloseKeepsSession ==
  [][/\ \A k \in 1..Len(socks) :
          (SocketClose(k) /\ state \in {"recording", "processing"}) =>
             UNCHANGED <<state, recs, recorderRef>>
     /\ (StopSettles /\ socks = <<>>) =>
          ~ReportedNow("WebSocket disconnected. Please try again.")]_vars

\* C15: an audio_stream frame is sent only by the step in which stop() of a
\* recorder settles with the channel open; that step sends the frame unless
\* the recording was too small; nothing is sent when the channel is not
\* open; and a recorder whose capture is over never delivers a result again.
C15_ResultConsumedOnce ==
  [][/\ (audioSent' /\ ~audioSent) => (StopSettles /\ isConnected(Pack))
     /\ (StopSettles /\ ~isConnected(Pack)) => audioSent' = audioSent
     /\ (StopSettles /\ isConnected(Pack)) => (audioSent' \/ ErrorReportedNow)
     /\ \A i \in 1..Len(recs) :
          (recs[i].mr = "none" /\ ~recs[i].isRecording) => recs'[i] = recs[i]]_vars

\* The audio of the session has been sent and its answer is awaited.
C15_Witness ==
  /\ audioSent /\ state = "processing"
  /\ responseTimeoutRef = ArmedTimer(session, "none")

\* C16: sendVoiceQuery called while this.ws is absent or not open sends
\* nothing and reports 'WebSocket not connected'; a socket that opens later
\* sends nothing either.
C16_SendRequiresOpen ==
  [][/\ (ClientSendVoiceQuery /\ ~isConnected(Pack)) =>
          (audioSent' = audioSent /\ ReportedNow("WebSocket not connected"))
     /\ (\E k \in 1..Len(socks) : SocketOpen(k)) => audioSent' = audioSent]_vars

\* A send was refused, the socket is open now, and nothing was sent.
C16_Witness ==
  /\ ~audioSent /\ isConnected(Pack)
  /\ \E i \in 1..Len(messages) : messages[i].text = <<"error", "WebSocket not connected">>

\* C17: the promise of connect() settles: when the socket opens the awaiting
\* startRecording goes on to create its recorder, and when the socket closes
\* before it opened the awaiting startRecording ends through its catch, which
\* reports the failure.
C17_ConnectSettles ==
  [][\A k \in 1..Len(socks) :
       /\ (SocketOpen(k) /\ socks[k].waiter) => Len(recs') = Len(recs) + 1
       /\ (SocketClose(k) /\ socks[k].rs = "connecting" /\ socks[k].waiter) =>
             (state' = "idle" /\ ErrorReportedNow)]_vars

\* C18: between disconnect() and the owner's next connect() no socket is
\* created and no reconnection is scheduled.
C18_NoReconnectAfterDisconnect ==
  [][intentionalClose =>
        \/ ClientConnect
        \/ (Len(socks') <= Len(socks) /\ reconnectTimers' <= reconnectTimers)]_vars

\* C19: reconnectAttempts never exceeds maxReconnectAttempts, only a
\* successful open lowers it (to 0), and a reconnection is scheduled only
\* while it is below the bound.
C19_BoundedReconnects ==
  [][/\ reconnectAttempts' <= maxReconnectAttempts
     /\ reconnectAttempts' < reconnectAttempts =>
           ((\E k \in 1..Len(socks) : SocketOpen(k)) /\ reconnectAttempts' = 0)
     /\ reconnectTimers' > reconnectTimers =>
           (reconnectAttempts < maxReconnectAttempts
              /\ reconnectAttempts' = reconnectAttempts + 1)]_vars

\* Every attempt failed and the client gave up.
C19_Witness ==
  /\ reconnectAttempts = maxReconnectAttempts
  /\ reconnectTimers = 0 /\ socks = <<>>
  /\ connectionStatus = "offline"

\* C20: a reconnection is scheduled with the status 'reconnecting'; when no
\* socket and no reconnection is left after an unexpected close the status
\* is 'offline'; and after 'offline' the status changes only by a connect()
\* of the owner.
C20_StatusProtocol ==
  [][/\ reconnectTimers' > reconnectTimers => connectionStatus' = "reconnecting"
     /\ (socks' = <<>> /\ reconnectTimers' = 0 /\ ~intentionalClose'
           /\ connectionStatus' # "none") => connectionStatus' = "offline"
     /\ (connectionStatus = "offline" /\ connectionStatus' # "offline") => ClientConnect]_vars

\* C21: the delay before a reconnection attempt is strictly greater than the
\* delay before the attempt that preceded it: when a close schedules attempt
\* k+1 after attempt k has failed, its timeout is longer than that of
\* attempt k.
C21_DelaysIncrease ==
  [][(reconnectTimers' > reconnectTimers /\ reconnectAttempts >= 1) =>
        reconnectTimeout(reconnectAttempts') > reconnectTimeout(reconnectAttempts)]_vars

\* C22: while this.ws is an open socket the heartbeat timer is active,
\* whatever connect() calls, reconnect timers, closes of older sockets and
\* disconnect() calls came before.
C22_HeartbeatWhileOpen == isConnected(Pack) => pingInterval

\* C23: a frame that is not valid JSON, has an unknown type or lacks the
\* field its type requires calls no callback and changes nothing of the
\* client or of the session: the sockets and their handlers are as before,
\* so the frames that follow are dispatched as if it had not arrived.
C23_MalformedFrameDropped ==
  [][FrameMalformed =>
        UNCHANGED <<state, stateRef, isSupported, streamRef, warmUp, micWaiters,
                    recs, recorderRef, streamingText, pendingAudioUrl,
                    responseTimeoutRef, audioUrlTimeoutRef, leakedAudioTimers,
                    ws, socks, reconnectAttempts, reconnectTimers, pingInterval,
                    intentionalClose, connectionStatus,
                    messages, msgQueue, streamingMsgIdRef, transcriptShownAt,
                    audioDelayTimer, audioUrl, effectsPending, nextId,
                    session, audioSent, uiLanguage, sessionLanguage, sentLanguage,
                    isLoading, loadingShown,
                    playerUrl, audios, audioRef, effectAudio, endTimers, signalled>>]_vars

\* The answer to a sent recording is awaited, frames have arrived during the
\* session, and the timeline, the timers and the channel show none of them.
C23_Witness ==
  /\ events < MaxEvents
  /\ state = "processing" /\ audioSent
  /\ responseTimeoutRef = ArmedTimer(session, "none")
  /\ messages = <<Welcome>> /\ msgQueue = <<>>
  /\ streamRef = "live" /\ Len(recs) = 1
  /\ Len(socks) = 1 /\ isConnected(Pack)
  /\ reconnectAttempts = 0 /\ reconnectTimers = 0

\* C24: when the finalized capture is smaller than 100 bytes and stop() is
\* awaited, stop() rejects: the step sends no audio_stream frame, reports
\* an error to the UI and makes the phase idle.
C24_SmallRecordingRejected ==
  [][\A i \in 1..Len(recs) :
       StopSettled(i) =>
         \A result \in StopResults({size \in BlobSizes : size < 100}) :
           RecorderOnStopYields(i, result) =>
              /\ result.rejected
              /\ audioSent' = audioSent
              /\ ReportedNow("Stop recording failed: Recording too small")
              /\ state' = "idle"]_vars

\* A recording that was stopped with the channel open was given up as too
\* small: nothing was sent, no answer is awaited, the error is in the timeline.
C24_Witness ==
  /\ state = "idle" /\ ~audioSent /\ session >= 1
  /\ recorderRef # 0 /\ recs[recorderRef].mr = "none" /\ ~recs[recorderRef].isRecording
  /\ isConnected(Pack) /\ responseTimeoutRef.st = "null"
  /\ LET shown == Shown(messages, msgQueue, streamingMsgIdRef, nextId)
     IN  shown[Len(shown)].text = <<"error", "Stop recording failed: Recording too small">>

\* The container a MIME type names.
Container(mimeType) ==
  CASE mimeType \in {"audio/webm;codecs=opus", "audio/webm"} -> "webm"
    [] mimeType = "audio/ogg;codecs=opus" -> "ogg"
    [] mimeType = "audio/mp4" -> "mp4"

\* C25: when stop() yields a result, its format is 'mp3' exactly when the
\* MP3 conversion succeeded, and otherwise it names the container of the
\* MIME type the recorder captured in, whichever type the browser supports.
C25_HonestFormat ==
  [][\A i \in 1..Len(recs) :
       StopSettled(i) =>
         \A supported \in Browsers, size \in BlobSizes, mp3ok \in BOOLEAN, rawok \in BOOLEAN :
           LET mimeType == getSupportedMimeType(supported)
               result == stopResult(mimeType, size, mp3ok, rawok)
           IN  \/ result.rejected
               \/ /\ result.format = "mp3" <=> mp3ok
                  /\ ~mp3ok => result.format = Container(mimeType)
               \/ ~RecorderOnStopYields(i, result)]_vars

\* The eager acquisition on mount was made and failed, and no stream has
\* been acquired since.
WarmUpFailed == isSupported /\ warmUp = "done" /\ streamRef = "none"

\* C26: after the eager microphone acquisition has failed, a startRecording
\* call issues no getUserMedia request, reports an error to the UI and
\* leaves the phase idle.
C26_NoRetryAfterFailedWarmUp ==
  [][(VoiceButtonClick /\ WarmUpFailed /\ stateRef = "idle") =>
        /\ micWaiters' = micWaiters
        /\ state' = "idle"
        /\ ErrorReportedNow]_vars

\* C27: at any time at most one Audio element exists that has not been
\* paused and released, and it is the element the player refers to; so no
\* two elements ever play at once, whatever the sequence of audioUrl
\* changes, Stop and Play/Pause clicks and unmounts.
C27_OneAudioElement ==
  /\ Len(audios) <= 1
  /\ \A k \in 1..Len(audios) : audios[k].id = audioRef

\* A playback has ended, its element was released and its timeout is still
\* pending while the element of the next audioUrl plays alone.
C27_Witness ==
  /\ endTimers # {}
  /\ Len(audios) = 1 /\ audios[1].st = "playing"
  /\ audios[1].id \notin endTimers
  /\ audioRef = audios[1].id
  /\ playerUrl # "none"

\* C29: onPlayEnd is delivered at most once for a playback, and never once a
\* later playback has begun: the timeout of handleEnded never reports a
\* playback that the Stop button has reported already, nor one whose
\* element has been replaced by the element of a later playback.
C29_SingleEndSignal ==
  [][\A id \in endTimers :
        EndTimerFires(id) => (id \notin signalled /\ audioRef \in {0, id})]_vars

\* C28: playback of a turn's audio never starts less than the dwell time
\* after the turn's final text was shown; in particular the step that shows
\* the final text, the handling of stream_end, does not itself hand the
\* audio to the player.
C28_DwellAfterFinalText ==
  [][\A text \in EndTexts : StreamEndOf(text) => audioUrl' = audioUrl]_vars

\* C30: the ui_language of the audio_stream frame of a session is the
\* language that was selected when the session's recording started.
C30_LanguageFixedAtStart ==
  [][(audioSent' /\ ~audioSent) => sentLanguage' = sessionLanguage']_vars

\* C31: one modality is active at a time: a text request in flight and a
\* voice phase other than idle never hold together.
C31_OneModality == ~(isLoading /\ state # "idle")

\* C32: the phase goes from processing to streaming on a stream_chunk frame
\* and on nothing else; a stream_chunk received in processing makes it
\* streaming; a transcript frame changes no phase; and a stream_chunk
\* received in any other phase leaves the phase as it is.
C32_StreamingOnFirstChunk ==
  [][/\ (state = "processing" /\ state' = "streaming") => FrameStreamChunk
     /\ FrameTranscript => state' = state
     /\ FrameStreamChunk =>
          state' = (IF state = "processing" THEN "streaming" ELSE state)]_vars

\* The transcript of the turn was shown while the phase stayed processing,
\* and the first chunk has made it streaming.
C32_Witness ==
  /\ state = "streaming" /\ audioSent
  /\ streamingText \in ChunkTexts
  /\ \E i \in 1..Len(messages) :
        messages[i].sender = "user" /\ messages[i].text = sanitizeText(<<"q">>)
  /\ \E i \in 1..Len(messages) : messages[i].status = "streaming"

\* C33: a voice turn adds one agent message to the timeline: a stream_end
\* handled while the timeline, once the queued updaters have run, holds the
\* streaming message of the turn finalises that message and adds none.
C33_OneAgentMessage ==
  [][\A text \in EndTexts :
        StreamEndOf(text) =>
          LET before == Shown(messages, msgQueue, streamingMsgIdRef, nextId)
              after == Shown(messages', msgQueue', streamingMsgIdRef', nextId')
          IN  (\E i \in 1..Len(before) : before[i].status = "streaming") =>
                 Len(after) = Len(before)]_vars

\* C34: an audio_url frame received while the phase is idle or recording is
\* invalid for the phase: it changes no phase and nothing of it reaches the
\* UI (no playback is scheduled or started).
C34_AudioUrlInvalidWhenIdle ==
  [][\A u \in Urls :
        (AudioUrlOf(u) /\ state \in {"idle", "recording"} /\ stateRef = state) =>
           (state' = state /\ audioUrl' = audioUrl /\ audioDelayTimer' = audioDelayTimer)]_vars

\* C35: the text onStreamChunk passes to the UI is what was accumulated
\* plus the chunk, in arrival order, and an error reset or a timeout reset
\* leaves nothing accumulated, so that no later chunk carries text from
\* before the reset.
C35_NoTextAcrossResets ==
  [][/\ FrameStreamChunk => \E chunk \in ChunkTexts : streamingText' = streamingText \o chunk
     /\ (FrameError \/ (\E k \in 1..Len(socks) : SocketError(k)) \/ ResponseTimeoutFires) =>
          streamingText' = <<>>]_vars

\* C36: a VoiceRecorder captures only while the phase is RECORDING: once the
\* phase has left RECORDING by any path, no MediaRecorder is still recording.
C36_CaptureOnlyWhileRecording == Capturing # {} => state = "recording"

\* C37: audio is played (ChatWindow's audioUrl is set) only while the hook
\* phase is PLAYING: no pending dwell timer starts playback after a reset
\* to IDLE, and playback never runs during RECORDING.
C37_PlaybackOnlyWhilePlaying == audioUrl # "none" => state = "playing"

\* C38: every way a playback can terminate leads to markPlaybackDone: when
\* an element of a playback reports an error while the phase is PLAYING,
\* the phase is reset to IDLE by that step, or the player with its Stop
\* button is still shown, or a timeout that signals the end is pending.
C38_PlaybackErrorEndsPlaying ==
  [][\A k \in 1..Len(audios) :
       (AudioError(k) /\ state = "playing") =>
          (state' = "idle" \/ endTimers' # {} \/ showPlayer(Pack)')]_vars

\* C39: a stopRecording call made when the session is no longer RECORDING
\* changes nothing: when the button's click calls it from a render that
\* still showed RECORDING although the phase has left RECORDING since, the
\* phase stays as it is, no recorder is touched, no message is added and
\* nothing is sent.
C39_LateStopChangesNothing ==
  [][(VoiceButtonClick /\ stateRef = "recording" /\ state # "recording") =>
       /\ state' = state
       /\ recs' = recs
       /\ audioSent' = audioSent
       /\ Len(Shown(messages', msgQueue', streamingMsgIdRef', nextId'))
            = Len(Shown(messages, msgQueue, streamingMsgIdRef, nextId))]_vars

\* C40: at any time at most one WebSocket created by the client is
\* connecting or open with its handlers attached, so that no two sockets can
\* deliver frames to the session or trigger a reconnection.
C40_OneLiveSocket ==
  Cardinality({k \in 1..Len(socks) : socks[k].rs \in {"connecting", "open"}}) <= 1

====
